---------------------------- MODULE Spec2Model ----------------------------
(***************************************************************************)
(* Model of ryzen-stabilizator's command dispatcher (main.go): the         *)
(* vendor/family/privilege gate, the flag path, the configuration-file     *)
(* path, the six toggling handlers and the status report.                  *)
(*                                                                         *)
(* The c6, boosting and aslr packages that main.go calls are modelled from *)
(* the specification's contracts (sections 3, 4.4 and 4.5).                *)
(*                                                                         *)
(* Strings whose characters the program inspects (configuration values)    *)
(* are tuples of one-character strings; a formatted message is the tuple   *)
(* of its literal pieces and of the digit sequences printed by %d.         *)
(***************************************************************************)
EXTENDS Integers, Sequences, FiniteSets, TLC

VARIABLES
    pc,          \* position of the run in main / handleConfigurationFile
    step,        \* index of the next switch statement of the current path
    vendor,      \* cpuid.CPU.VendorID
    family,      \* cpuid.CPU.Family
    euid,        \* os.Geteuid()
    gateErr,     \* value returned by sanityCheck (Nil before the call)
    configFile,  \* *configFilePtr
    flags,       \* the six boolean flags, by feature and operation
    fileResult,  \* outcome of ReadFile / toml.Decode
    settings,    \* the decoded rsSettings
    hw,          \* the control surfaces: per-core bits and the sysctl value
    hw0,         \* the control surfaces when the run started
    faults,      \* number of library calls that met an injected fault
    calls,       \* history of the c6 / boosting / aslr library calls
    out          \* lines written to standard output

vars == <<pc, step, vendor, family, euid, gateErr, configFile, flags,
          fileResult, settings, hw, hw0, faults, calls, out>>

----------------------------------------------------------------------------
(* Bounds *)

NumCores == 2
MaxFaults == 1

Cores == 1..NumCores

----------------------------------------------------------------------------
(* Constants of the program *)

\* the nil error; an error is the tuple of the pieces of its message
Nil == <<>>

amdZenFamily == 23

AMD == "AMD"

Vendors == {"AMD", "Intel"}
Families == {6, 21, 23, 25}
Euids == {0, 1000}

Features == {"c6", "boosting", "aslr"}
Ops == {"Enable", "Disable"}

----------------------------------------------------------------------------
(* fmt's %d: the decimal digits of a non-negative integer *)

RECURSIVE Itoa(_)
Itoa(n) == IF n < 10 THEN <<n>> ELSE Append(Itoa(n \div 10), n % 10)

----------------------------------------------------------------------------
(* sanityCheck *)

ErrNotAMD == <<"this is not an AMD processor">>
ErrWrongFamily(f) ==
    <<"wrong family of AMD processors; expected ", <<2, 3>>, " (17h), got ", Itoa(f)>>
ErrNotRoot == <<"you need to be root to use this program">>

sanityCheckNoRoot(v, f, e) ==
    IF v # AMD THEN ErrNotAMD
    ELSE IF f # amdZenFamily THEN ErrWrongFamily(f)
    ELSE Nil

sanityCheck(v, f, e) ==
    IF v # AMD THEN ErrNotAMD
    ELSE IF f # amdZenFamily THEN ErrWrongFamily(f)
    ELSE IF e # 0 THEN ErrNotRoot
    ELSE Nil

----------------------------------------------------------------------------
(* strings.ToLower on the characters configuration values are made of *)

UpperLetters == <<"A","B","C","D","E","F","G","H","I","J","K","L","M",
                  "N","O","P","Q","R","S","T","U","V","W","X","Y","Z">>
LowerLetters == <<"a","b","c","d","e","f","g","h","i","j","k","l","m",
                  "n","o","p","q","r","s","t","u","v","w","x","y","z">>

ToLowerChar(c) ==
    IF \E i \in DOMAIN UpperLetters : UpperLetters[i] = c
    THEN LowerLetters[CHOOSE i \in DOMAIN UpperLetters : UpperLetters[i] = c]
    ELSE c

ToLowerIdentity(s) == s

ToLower(s) == [i \in DOMAIN s |-> ToLowerChar(s[i])]

sEnable == <<"e","n","a","b","l","e">>
sDisable == <<"d","i","s","a","b","l","e">>

----------------------------------------------------------------------------
(* The c6, boosting and aslr packages: per-core register bits reduced by   *)
(* unanimity, and one host-wide sysctl integer.  F is the set of units     *)
(* (cores, or the single sysctl path) on which the call's I/O fails.       *)

AslrFull == 2
AslrValues == 0..AslrFull

Units(f) == IF f = "aslr" THEN {1} ELSE Cores

HwStates == [c6 : SUBSET Cores, boosting : SUBSET Cores, aslr : AslrValues]

\* The states a run may start in.  The library treats all cores alike, so one
\* set of enabled cores of each size stands for every set of that size.
InitialHw == [c6 : {1..k : k \in 0..NumCores}, boosting : {1..k : k \in 0..NumCores},
              aslr : AslrValues]

\* FeatureController.enable / disable and SysctlFeatureController.enable / disable
LibWrite(f, h, desired, F) ==
    IF f = "aslr"
    THEN IF F # {}
         THEN [hw |-> h, err |-> <<"IOFailure">>]
         ELSE [hw |-> [h EXCEPT !.aslr = IF desired THEN AslrFull ELSE 0], err |-> Nil]
    ELSE LET written == Cores \ F
         IN IF written = {}
            THEN [hw |-> h, err |-> <<"ControllerError">>]
            ELSE [hw |-> [h EXCEPT ![f] = IF desired THEN @ \cup written ELSE @ \ written],
                  err |-> Nil]

\* FeatureController.status / SysctlFeatureController.status as (bool, error)
LibEnabled(f, h, F) ==
    IF F # {} THEN [val |-> FALSE, err |-> <<"Unknown">>]
    ELSE IF f = "aslr" THEN [val |-> h.aslr # 0, err |-> Nil]
    ELSE IF h[f] = Cores THEN [val |-> TRUE, err |-> Nil]
    ELSE IF h[f] = {} THEN [val |-> FALSE, err |-> Nil]
    ELSE [val |-> FALSE, err |-> <<"Mixed">>]

\* the fault sets a call may meet, given the faults injected so far
FaultSets(f, n) == IF n < MaxFaults THEN SUBSET Units(f) ELSE {{}}

\* the same for a status query, which treats all units alike: one fault set
\* of each size stands for every set of that size
ReadFaultSets(f, n) ==
    IF n < MaxFaults THEN {1..k : k \in 0..Cardinality(Units(f))} ELSE {{}}

Bump(n, F) == IF F # {} THEN n + 1 ELSE n

----------------------------------------------------------------------------
(* The six handlers: print the action, call the library, print the outcome *)

Prefix(f, op) ==
    CASE f = "c6" /\ op = "Disable" -> "Disabling C6 C-state:   "
      [] f = "c6" /\ op = "Enable" -> "Enabling C6 C-state:   "
      [] f = "boosting" /\ op = "Disable" -> "Disabling processor boosting:   "
      [] f = "boosting" /\ op = "Enable" -> "Enabling processor boosting:   "
      [] f = "aslr" /\ op = "Disable" ->
            "Disabling address space layout randomization (ASLR):   "
      [] f = "aslr" /\ op = "Enable" ->
            "Enabling address space layout randomization (ASLR):   "

\* Printf(prefix); if err != nil { Printf("oops: %v\n", err); return }; Println("SUCCESS")
OutcomeAlwaysSuccess(prefix, err) == <<prefix, "SUCCESS">>

OutcomeLine(prefix, err) ==
    IF err # Nil THEN <<prefix, "oops: ", err>> ELSE <<prefix, "SUCCESS">>

\* the handler that announces `action` on feature f and calls f's library
\* operation op
Toggle(f, action, op) ==
    \E F \in FaultSets(f, faults) :
        LET r == LibWrite(f, hw, op = "Enable", F)
        IN /\ hw' = r.hw
           /\ faults' = Bump(faults, F)
           /\ calls' = Append(calls, [f |-> f, op |-> op, err |-> r.err, val |-> FALSE])
           /\ out' = Append(out, OutcomeLine(Prefix(f, action), r.err))

disableC6 == Toggle("c6", "Disable", "Disable")
enableC6CallsDisable == Toggle("c6", "Enable", "Disable")

enableC6 == Toggle("c6", "Enable", "Enable")
disableBoosting == Toggle("boosting", "Disable", "Disable")
enableBoosting == Toggle("boosting", "Enable", "Enable")
disableASLR == Toggle("aslr", "Disable", "Disable")
enableASLR == Toggle("aslr", "Enable", "Enable")

NoAction == UNCHANGED <<hw, faults, calls, out>>

----------------------------------------------------------------------------
(* showStatus *)

c6Status(val, err) ==
    IF err = Nil
    THEN IF val THEN <<"C6 C-state is ENABLED.">> ELSE <<"C6 C-state is DISABLED.">>
    ELSE <<"Error while obtaining status of C6 C-state: ", err>>

aslrStatusIgnoresErr(val, err) ==
    IF val THEN <<"ASLR is ENABLED.">> ELSE <<"ASLR is DISABLED.">>

aslrStatus(val, err) ==
    IF err = Nil
    THEN IF val THEN <<"ASLR is ENABLED.">> ELSE <<"ASLR is DISABLED.">>
    ELSE <<"Error while obtaining status of ASLR: ", err>>

boostingStatus(val, err) ==
    IF err = Nil
    THEN IF val THEN <<"Processor boosting is ENABLED.">>
                ELSE <<"Processor boosting is DISABLED.">>
    ELSE <<"Error while obtaining status of processor boosting: ", err>>

Query(f, r) == [f |-> f, op |-> "Enabled", err |-> r.err, val |-> r.val]

showStatusWithoutASLR ==
    \E F1 \in FaultSets("c6", faults) :
    \E F3 \in FaultSets("boosting", Bump(faults, F1)) :
        LET r1 == LibEnabled("c6", hw, F1)
            r3 == LibEnabled("boosting", hw, F3)
        IN /\ faults' = Bump(Bump(faults, F1), F3)
           /\ calls' = calls \o <<Query("c6", r1), Query("boosting", r3)>>
           /\ out' = out \o << <<>>, c6Status(r1.val, r1.err),
                               boostingStatus(r3.val, r3.err) >>
           /\ UNCHANGED hw

showStatus ==
    \E F1 \in ReadFaultSets("c6", faults) :
    \E F2 \in ReadFaultSets("aslr", Bump(faults, F1)) :
    \E F3 \in ReadFaultSets("boosting", Bump(Bump(faults, F1), F2)) :
        LET r1 == LibEnabled("c6", hw, F1)
            r2 == LibEnabled("aslr", hw, F2)
            r3 == LibEnabled("boosting", hw, F3)
        IN /\ faults' = Bump(Bump(Bump(faults, F1), F2), F3)
           /\ calls' = calls \o <<Query("c6", r1), Query("aslr", r2), Query("boosting", r3)>>
           /\ out' = out \o << <<>>, c6Status(r1.val, r1.err),
                               aslrStatus(r2.val, r2.err),
                               boostingStatus(r3.val, r3.err) >>
           /\ UNCHANGED hw

----------------------------------------------------------------------------
(* The two dispatch paths *)

\* switch { case *disableXPtr: disableX(); case *enableXPtr: enableX() }
FlagChoiceEnableFirst(dis, en) ==
    IF en THEN "Enable" ELSE IF dis THEN "Disable" ELSE "none"

FlagChoice(dis, en) == IF dis THEN "Disable" ELSE IF en THEN "Enable" ELSE "none"

\* switch strings.ToLower(settings.X) { case "enable": ...; case "disable": ... }
ConfigChoice(v) ==
    LET l == ToLower(v)
    IN IF l = sEnable THEN "Enable" ELSE IF l = sDisable THEN "Disable" ELSE "none"

\* the order of the switch statements on each path
flagOrderBoostFirst == <<"boosting", "c6", "aslr">>

flagOrder == <<"c6", "boosting", "aslr">>
configOrder == <<"boosting", "c6", "aslr">>

Perform(f, op) ==
    CASE op = "none" -> NoAction
      [] f = "c6" /\ op = "Disable" -> disableC6
      [] f = "c6" /\ op = "Enable" -> enableC6
      [] f = "boosting" /\ op = "Disable" -> disableBoosting
      [] f = "boosting" /\ op = "Enable" -> enableBoosting
      [] f = "aslr" /\ op = "Disable" -> disableASLR
      [] f = "aslr" /\ op = "Enable" -> enableASLR

\* if err != nil { fmt.Printf("Error: %v.\n", err); return }
GateNeverAborts(err) == FALSE

GateAborts(err) == err # Nil

\* if *configFilePtr != "" { handleConfigurationFile(*configFilePtr); return }
UsesConfigNever(cf) == FALSE

UsesConfig(cf) == cf # <<>>

Banner == <<"Ryzen Stabilizator Tabajara", "unspecified/git version",
            "Copyright (C) 2018 Sergio Correia <sergio@correia.cc>">>

----------------------------------------------------------------------------
(* Inputs *)

ConfigFiles == {<<>>, <<"r","s",".","t","o","m","l">>}

NoFlags == [f \in Features |-> [o \in Ops |-> FALSE]]
FlagSets == [Features -> [Ops -> BOOLEAN]]
AllFlags == [f \in Features |-> [o \in Ops |-> TRUE]]
FlagsBesideConfig == {NoFlags, AllFlags}

\* the command lines: every combination of the six flags without --config,
\* and --config alone or with all six flags
Argvs == [configFile : {<<>>}, flags : FlagSets] \cup
         [configFile : ConfigFiles \ {<<>>}, flags : FlagsBesideConfig]

ConfigValues == { <<>>, sEnable, <<"E","N","A","B","L","E">>,
                  <<"D","i","s","A","B","L","e">>,
                  <<"e","n","a","b","l","e","d">> }

NoSettings == [f \in Features |-> <<>>]
SettingsSets == [Features -> ConfigValues]

FileResults == {"ok", "readerr", "parseerr"}

----------------------------------------------------------------------------
(* The run *)

Init ==
    /\ pc = "sanity"
    /\ step = 0
    /\ vendor \in Vendors
    /\ family \in Families
    /\ euid \in Euids
    /\ gateErr = Nil
    /\ configFile = <<>>
    /\ flags = NoFlags
    /\ fileResult = "none"
    /\ settings = NoSettings
    /\ hw \in InitialHw
    /\ hw0 = hw
    /\ faults = 0
    /\ calls = <<>>
    /\ out = <<>>

\* main: banner, sanityCheck, abort on error
SanityCheck ==
    /\ pc = "sanity"
    /\ LET err == sanityCheck(vendor, family, euid)
       IN /\ gateErr' = err
          /\ IF GateAborts(err)
             THEN /\ out' = <<Banner, <<"Error: ", err, ".">>>>
                  /\ pc' = "done"
             ELSE /\ out' = <<Banner>>
                  /\ pc' = "parse"
    /\ UNCHANGED <<step, vendor, family, euid, configFile, flags, fileResult,
                   settings, hw, hw0, faults, calls>>

\* main: flag.Parse() and the choice of the path
ParseFlags ==
    /\ pc = "parse"
    /\ \E argv \in Argvs :
          /\ configFile' = argv.configFile
          /\ flags' = argv.flags
          /\ pc' = IF UsesConfig(argv.configFile) THEN "config_read" ELSE "flags"
    /\ step' = 1
    /\ UNCHANGED <<vendor, family, euid, gateErr, fileResult, settings, hw, hw0,
                   faults, calls, out>>

\* main: the i-th switch statement of the flag path
FlagSwitch(i) ==
    /\ pc = "flags"
    /\ step = i
    /\ LET f == flagOrder[i]
       IN Perform(f, FlagChoice(flags[f]["Disable"], flags[f]["Enable"]))
    /\ step' = IF i < Len(flagOrder) THEN i + 1 ELSE 0
    /\ pc' = IF i < Len(flagOrder) THEN "flags" ELSE "status"
    /\ UNCHANGED <<vendor, family, euid, gateErr, configFile, flags, fileResult,
                   settings, hw0>>

\* handleConfigurationFile: ReadFile and toml.Decode
ReadConfig ==
    /\ pc = "config_read"
    /\ \E r \in FileResults :
          /\ fileResult' = r
          /\ \/ /\ r = "readerr"
                /\ out' = Append(out, <<"Error: unable to read contents of config file ",
                                        configFile, ": ", <<"ReadFileError">>, ".">>)
                /\ settings' = settings
                /\ pc' = "done"
                /\ step' = 0
             \/ /\ r = "parseerr"
                /\ out' = out \o << <<"Error: problem parsing config file ",
                                      configFile, ": ", <<"DecodeError">>, ".">>, <<>> >>
                /\ settings' = settings
                /\ pc' = "done"
                /\ step' = 0
             \/ /\ r = "ok"
                /\ settings' \in SettingsSets
                /\ out' = Append(out, <<"Config file: ", configFile>>)
                /\ pc' = "config"
                /\ step' = 1
    /\ UNCHANGED <<vendor, family, euid, gateErr, configFile, flags, hw, hw0,
                   faults, calls>>

\* handleConfigurationFile: the i-th switch statement
ConfigSwitch(i) ==
    /\ pc = "config"
    /\ step = i
    /\ LET f == configOrder[i]
       IN Perform(f, ConfigChoice(settings[f]))
    /\ step' = IF i < Len(configOrder) THEN i + 1 ELSE 0
    /\ pc' = IF i < Len(configOrder) THEN "config" ELSE "status"
    /\ UNCHANGED <<vendor, family, euid, gateErr, configFile, flags, fileResult,
                   settings, hw0>>

\* the closing showStatus() of either path, after which the run returns
ShowStatus ==
    /\ pc = "status"
    /\ showStatus
    /\ pc' = "done"
    /\ UNCHANGED <<step, vendor, family, euid, gateErr, configFile, flags,
                   fileResult, settings, hw0>>

Next ==
    \/ SanityCheck
    \/ ParseFlags
    \/ \E i \in 1..3 : FlagSwitch(i)
    \/ ReadConfig
    \/ \E i \in 1..3 : ConfigSwitch(i)
    \/ ShowStatus

Spec == Init /\ [][Next]_vars

----------------------------------------------------------------------------
(* Vocabulary of the properties *)

\* the number a sequence of decimal digits denotes
RECURSIVE Atoi(_)
Atoi(ds) == IF ds = <<>> THEN 0
            ELSE 10 * Atoi(SubSeq(ds, 1, Len(ds) - 1)) + ds[Len(ds)]

IsMutation(c) == c.op \in Ops
IsQuery(c) == c.op = "Enabled"

MutCalls == SelectSeq(calls, IsMutation)
StatusCalls == SelectSeq(calls, IsQuery)

Called(f, op) == \E i \in DOMAIN calls : calls[i].f = f /\ calls[i].op = op
Mutated(f) == Called(f, "Enable") \/ Called(f, "Disable")

GateInputsOK == vendor = "AMD" /\ family = 23 /\ euid = 0

OnConfigPath == configFile # <<>>
OnFlagPath == pc \in {"flags", "status", "done"} /\ gateErr = Nil /\ configFile = <<>>

\* every spelling of the lower-case word w in upper- and lower-case letters
UpperOf(c) == UpperLetters[CHOOSE k \in DOMAIN LowerLetters : LowerLetters[k] = c]
Spellings(w) ==
    {[i \in DOMAIN w |-> IF i \in U THEN UpperOf(w[i]) ELSE w[i]] : U \in SUBSET DOMAIN w}

EnableSpellings == Spellings(<<"e","n","a","b","l","e">>)
DisableSpellings == Spellings(<<"d","i","s","a","b","l","e">>)

\* the configuration value v is the word of op when the case of letters is ignored
Names(v, op) == v \in (IF op = "Enable" THEN EnableSpellings ELSE DisableSpellings)

\* the three lines of a status report, as the output format prescribes them
Sentence(f, val) ==
    CASE f = "c6" -> IF val THEN <<"C6 C-state is ENABLED.">>
                     ELSE <<"C6 C-state is DISABLED.">>
      [] f = "aslr" -> IF val THEN <<"ASLR is ENABLED.">> ELSE <<"ASLR is DISABLED.">>
      [] f = "boosting" -> IF val THEN <<"Processor boosting is ENABLED.">>
                           ELSE <<"Processor boosting is DISABLED.">>

ErrorSentence(f, err) ==
    CASE f = "c6" -> <<"Error while obtaining status of C6 C-state: ", err>>
      [] f = "aslr" -> <<"Error while obtaining status of ASLR: ", err>>
      [] f = "boosting" -> <<"Error while obtaining status of processor boosting: ", err>>

StatusOrder == <<"c6", "aslr", "boosting">>

IsStatusLine(f, line) ==
    \/ line \in {Sentence(f, TRUE), Sentence(f, FALSE)}
    \/ Len(line) = 2 /\ line[1] = ErrorSentence(f, Nil)[1]

\* the run's last three library calls are the status queries and its last
\* three output lines are their status lines
EndsWithStatus ==
    /\ Len(calls) >= 3
    /\ Len(out) >= 3
    /\ \A k \in 1..3 :
          /\ IsQuery(calls[Len(calls) - 3 + k])
          /\ calls[Len(calls) - 3 + k].f = StatusOrder[k]
          /\ IsStatusLine(StatusOrder[k], out[Len(out) - 3 + k])

\* the status line of feature f in a report that ended the run
StatusLineOf(f) ==
    out[Len(out) - 3 + (CHOOSE k \in 1..3 : StatusOrder[k] = f)]

ActionPrefixes == {Prefix(f, op) : f \in Features, op \in Ops}
IsActionLine(line) == Len(line) >= 1 /\ line[1] \in ActionPrefixes
ActionLines == SelectSeq(out, IsActionLine)

\* the run announced the action op on feature f
Performed(f, op) == \E i \in DOMAIN out : Len(out[i]) >= 1 /\ out[i][1] = Prefix(f, op)

FullyEnabled(f) == IF f = "aslr" THEN hw.aslr # 0 ELSE hw[f] = Cores
FullyDisabled(f) == IF f = "aslr" THEN hw.aslr = 0 ELSE hw[f] = {}

----------------------------------------------------------------------------
(* C1: the gate completes successfully before any library call: a call has *)
(* been made only in runs whose vendor, family and euid pass, and a run    *)
(* whose gate failed has ended without any enable, disable or status call. *)
C1_GateBeforeIO ==
    /\ calls # <<>> => pc # "sanity" /\ GateInputsOK
    /\ pc # "sanity" /\ ~GateInputsOK => pc = "done" /\ calls = <<>>

C1_Witness == pc = "done" /\ vendor = "AMD" /\ family = 23 /\ euid # 0 /\ calls = <<>>

(* C2: the gate's verdict for every vendor, family and euid.  The claim as *)
(* written promises the insufficient-privilege error for every euid # 0.   *)
C2_Original ==
    pc # "sanity" =>
        /\ vendor # "AMD" => gateErr = <<"this is not an AMD processor">>
        /\ vendor = "AMD" /\ family # 23 =>
              /\ Len(gateErr) = 4
              /\ Atoi(gateErr[2]) = 23
              /\ Atoi(gateErr[4]) = family
        /\ euid # 0 => gateErr = <<"you need to be root to use this program">>
        /\ gateErr = Nil <=> GateInputsOK

(* C2 as amended: the insufficient-privilege error is the verdict for      *)
(* euid # 0 when the vendor and the family pass; the vendor and family     *)
(* errors take precedence over it.                                         *)
C2_Gate ==
    pc # "sanity" =>
        /\ vendor # "AMD" => gateErr = <<"this is not an AMD processor">>
        /\ vendor = "AMD" /\ family # 23 =>
              /\ Len(gateErr) = 4
              /\ gateErr[1] = "wrong family of AMD processors; expected "
              /\ Atoi(gateErr[2]) = 23
              /\ Atoi(gateErr[4]) = family
        /\ vendor = "AMD" /\ family = 23 /\ euid # 0 =>
              gateErr = <<"you need to be root to use this program">>
        /\ gateErr = Nil <=> GateInputsOK

C2_Witness ==
    /\ pc = "done"
    /\ vendor = "AMD" /\ family = 21 /\ euid # 0
    /\ gateErr[4] = <<2, 1>>

(* C3: with --config the actions of the run are those the configuration    *)
(* document names and no others, whatever flags were given, and a feature  *)
(* the document does not name keeps the state it had.                      *)
C3_ConfigPrecedence ==
    pc = "done" /\ OnConfigPath =>
        /\ LET m == MutCalls
           IN {<<m[i].f, m[i].op>> : i \in DOMAIN m}
                 = {<<f, op>> \in Features \X Ops :
                       fileResult = "ok" /\ Names(settings[f], op)}
        /\ \A f \in Features :
              (\A op \in Ops : ~Names(settings[f], op)) => hw[f] = hw0[f]

C3_Witness ==
    /\ pc = "done" /\ OnConfigPath
    /\ flags["boosting"]["Disable"]
    /\ settings["boosting"] = <<"e","n","a","b","l","e">>
    /\ Names(settings["c6"], "Disable")
    /\ settings["aslr"] = <<>>
    /\ hw0.boosting = {} /\ hw.boosting = Cores
    /\ hw0.c6 = Cores /\ hw.c6 = {}
    /\ hw.aslr = hw0.aslr
    /\ ~Called("boosting", "Disable")

C5_Original ==
    /\ LET m == MutCalls
       IN \A i, j \in DOMAIN m :
             i < j => <<m[i].f, m[j].f>>
                         \in {<<"boosting", "c6">>, <<"boosting", "aslr">>, <<"c6", "aslr">>}
    /\ \A i, j \in DOMAIN calls : IsQuery(calls[i]) /\ IsMutation(calls[j]) => j < i

(* C5 as amended: the configuration-file path applies Boost, C6, ASLR; the *)
(* flag path applies C6, Boost, ASLR; the status report comes after the    *)
(* actions on both.                                                        *)
C5_Order ==
    /\ LET m == MutCalls
       IN \A i, j \in DOMAIN m :
             i < j => <<m[i].f, m[j].f>> \in
                         IF OnConfigPath
                         THEN {<<"boosting", "c6">>, <<"boosting", "aslr">>, <<"c6", "aslr">>}
                         ELSE {<<"c6", "boosting">>, <<"c6", "aslr">>, <<"boosting", "aslr">>}
    /\ \A i, j \in DOMAIN calls : IsQuery(calls[i]) /\ IsMutation(calls[j]) => j < i

C5_Witness ==
    /\ pc = "done" /\ ~OnConfigPath
    /\ Len(calls) = 6
    /\ calls[1].f = "c6" /\ calls[2].f = "boosting" /\ calls[3].f = "aslr"
    /\ IsQuery(calls[4])

(* C6: each attempted action prints exactly one outcome line, SUCCESS when *)
(* the library call returned no error and "oops: <error>" when it returned *)
(* one; a failed action does not end the run: once the switches are past,  *)
(* every requested action has been attempted.                              *)
C6_OutcomeLines ==
    /\ LET m == MutCalls
           lines == ActionLines
       IN /\ Len(lines) = Len(m)
          /\ \A i \in DOMAIN m :
                lines[i] = IF m[i].err = Nil
                           THEN <<Prefix(m[i].f, m[i].op), "SUCCESS">>
                           ELSE <<Prefix(m[i].f, m[i].op), "oops: ", m[i].err>>
    /\ pc \in {"status", "done"} /\ gateErr = Nil =>
          \A f \in Features :
              Mutated(f) <=>
                  IF OnConfigPath
                  THEN fileResult = "ok" /\ \E op \in Ops : Names(settings[f], op)
                  ELSE flags[f]["Enable"] \/ flags[f]["Disable"]

C6_Witness ==
    /\ pc = "done"
    /\ Len(MutCalls) = 3
    /\ MutCalls[1].err # Nil /\ MutCalls[2].err = Nil /\ MutCalls[3].err = Nil
    /\ Len(ActionLines) = 3
    /\ ActionLines[1][2] = "oops: " /\ ActionLines[2][2] = "SUCCESS"

(* C7: the status report is never cut short: it makes its three queries in *)
(* the order C6, ASLR, Boost and prints one line for each; the line of a   *)
(* failed query is the error sentence with the error, and the line of a    *)
(* successful one is ENABLED or DISABLED as the value returned says.       *)
C7_StatusReport ==
    LET qs == StatusCalls
    IN /\ Len(qs) \in {0, 3}
       /\ qs # <<>> =>
          /\ pc = "done"
          /\ EndsWithStatus
          /\ \A k \in 1..3 :
                LET q == qs[k]
                IN /\ q.f = StatusOrder[k]
                   /\ out[Len(out) - 3 + k] =
                         IF q.err # Nil THEN ErrorSentence(q.f, q.err)
                         ELSE Sentence(q.f, q.val)

C7_Witness ==
    /\ pc = "done"
    /\ Len(StatusCalls) = 3
    /\ StatusCalls[1].err = Nil /\ StatusCalls[1].val
    /\ StatusCalls[2].err # Nil
    /\ StatusCalls[3].err = Nil /\ ~StatusCalls[3].val
    /\ out[Len(out) - 1] = ErrorSentence("aslr", StatusCalls[2].err)

C9_RoundTrip ==
    pc = "done" /\ (\E i \in DOMAIN calls : IsQuery(calls[i])) =>
        \A f \in Features :
            /\ faults = 0 /\ Performed(f, "Enable") => StatusLineOf(f) = Sentence(f, TRUE)
            /\ faults = 0 /\ Performed(f, "Disable") => StatusLineOf(f) = Sentence(f, FALSE)
            /\ StatusLineOf(f) = Sentence(f, TRUE) => FullyEnabled(f)
            /\ StatusLineOf(f) = Sentence(f, FALSE) => FullyDisabled(f)

C9_Witness ==
    /\ pc = "done" /\ faults = 0
    /\ hw0.c6 # {} /\ hw0.c6 # Cores /\ Performed("c6", "Enable")
    /\ StatusLineOf("c6") = Sentence("c6", TRUE)
    /\ hw0.aslr # 0 /\ Performed("aslr", "Disable")
    /\ StatusLineOf("aslr") = Sentence("aslr", FALSE)

(* C10: a run performs at most one action on each feature; on the flag     *)
(* path a feature with its disable flag is disabled and never enabled,     *)
(* also when its enable flag is given too, and a feature with neither flag *)
(* is left alone.                                                          *)
C10_OneActionPerFeature ==
    /\ LET m == MutCalls
       IN \A f \in Features : Cardinality({i \in DOMAIN m : m[i].f = f}) <= 1
    /\ OnFlagPath /\ pc \in {"status", "done"} =>
          \A f \in Features :
              /\ flags[f]["Disable"] => Called(f, "Disable") /\ ~Called(f, "Enable")
              /\ ~flags[f]["Disable"] /\ flags[f]["Enable"] =>
                    Called(f, "Enable") /\ ~Called(f, "Disable")
              /\ ~flags[f]["Disable"] /\ ~flags[f]["Enable"] => ~Mutated(f)

C10_Witness ==
    /\ pc = "done" /\ OnFlagPath
    /\ flags["c6"]["Enable"] /\ flags["c6"]["Disable"]
    /\ Called("c6", "Disable") /\ ~Called("c6", "Enable")
    /\ ~flags["aslr"]["Enable"] /\ ~flags["aslr"]["Disable"] /\ ~Mutated("aslr")

=============================================================================
